---------------------------- MODULE Spec2Model ----------------------------
(***************************************************************************)
(* A model of the WebGPU descriptor generator of webdnn                    *)
(* (graph_builder/backend/webgpu/generator.py), of the Sgemm operator      *)
(* (graph_builder/backend/webgpu/operators/sgemm.py) and of the stride     *)
(* helper (graph_transpiler/backend/fallback/kernels/util.py).             *)
(*                                                                         *)
(* Four specifications share the variables:                                *)
(*   Spec        one call of generate(graph)                               *)
(*   SpecRepeat  generate(graph) called again on the same graph            *)
(*   SpecSgemm   construction and application of an Sgemm operator         *)
(*   SpecStride  calculate_stride over the axes of a variable              *)
(***************************************************************************)
EXTENDS Integers, Sequences, FiniteSets, TLC

VARIABLES
    \* ---- generate(graph) ------------------------------------------------
    inputGraph,        \* the argument of generate
    VALIDATE_GENERATED_SOURCE, \* flags.backend.webgpu.VALIDATE_GENERATED_SOURCE
    pc,                \* position of the call of generate
    graph,             \* generate's local `graph` (rebound by optimize)
    variables_layout,  \* generate's locals, set by Allocator.allocate
    constants_layout,
    constants_data,
    kernels,           \* the list built by generate_kernels
    pos,               \* index of the loop of generate_kernels in the traversal
    descriptor,        \* generate's local `descriptor`
    result,            \* what generate returned to its caller
    exception,         \* the exception that left generate
    exitCode,          \* the argument of exit() in validate_kernel_source
    reported,          \* "Generated kernel source is invalid." was printed
    toolchain,         \* history: what each subprocess.run of this call did
    calls,             \* history: the handler invocations of this call
    phases,            \* history: the phases of this call, in order
    outcomes,          \* history: the outcomes of the completed calls
    \* ---- Sgemm ----------------------------------------------------------
    sgemm,             \* the Sgemm operator object
    lastOp,            \* the last Sgemm operation and what it did
    \* ---- calculate_stride -----------------------------------------------
    var,               \* the variable: shape and order
    strides            \* the strides computed so far, by axis

vars == <<inputGraph, VALIDATE_GENERATED_SOURCE, pc, graph, variables_layout,
          constants_layout, constants_data, kernels, pos, descriptor, result,
          exception, exitCode, reported, toolchain, calls, phases, outcomes,
          sgemm, lastOp, var, strides>>

genVars == <<inputGraph, VALIDATE_GENERATED_SOURCE, pc, graph, variables_layout,
             constants_layout, constants_data, kernels, pos, descriptor, result,
             exception, exitCode, reported, toolchain, calls, phases, outcomes>>

sgemmVars == <<sgemm, lastOp>>

strideVars == <<var, strides>>

-----------------------------------------------------------------------------
(* Bounds *)

MaxOps == 2            \* operators in a graph
MaxCustomKernels == 2  \* kernels a caller-supplied function returns
MaxRecompiles == 1     \* further calls of generate on the same graph
MaxDim == 2            \* M, N, K of an Sgemm, and the extents of its operands
MaxOutRank == 2        \* rank of the out_shape of an Sgemm
MaxRank == 3           \* rank of a shape
MaxExtent == 4         \* extent of one dimension

SeqsUpTo(S, n) == UNION {[1..k -> S] : k \in 0..n}

RECURSIVE Product(_)
Product(s) == IF s = <<>> THEN 1 ELSE Head(s) * Product(Tail(s))

None == [none |-> TRUE]

-----------------------------------------------------------------------------
(* The operators of a graph and the dispatch chain of generate_kernels *)

\* The classes tested by the isinstance chain, in the order of the chain.
BuiltinChain ==
    <<"Linear", "AxiswiseBias", "Relu", "Elu", "Tanh",
      "LocalResponseNormalization", "MaxPooling2D", "AveragePooling2D",
      "AxiswiseScale", "ElementwiseSum", "Flatten", "Sgemm", "Im2Col",
      "Col2Im", "AffineTransform">>

\* The kernel-emission function each branch of the chain calls.
BuiltinHandlers ==
    <<"linear", "axiswise_bias", "relu", "elu", "tanh",
      "local_response_normalization", "max_pooling_2d", "average_pooling_2d",
      "axiswise_scale", "elementwise_sum", "flatten", "sgemm", "im2col",
      "col2im", "affine_transform">>

BuiltinClasses == {BuiltinChain[i] : i \in DOMAIN BuiltinChain}

\* "Operator": an Operator that is an instance of no class of the chain.
\* "object": an element of the traversal that is no Operator at all.
Classes == BuiltinClasses \cup {"Operator", "object"}

\* The value under parameters["custom_kernel"]: absent, or a caller-supplied
\* function returning n kernels, bound to the operator's own tensors or
\* (stray) to a tensor the graph does not hold.
NoCustom == [present |-> FALSE, n |-> 0, stray |-> FALSE]

CustomFns ==
    {[present |-> TRUE, n |-> n, stray |-> st] :
        n \in 0..MaxCustomKernels, st \in BOOLEAN} \
    {[present |-> TRUE, n |-> 0, stray |-> TRUE]}

PlainCustom == [present |-> TRUE, n |-> 1, stray |-> FALSE]

OpKinds(classes) ==
    {[cls |-> c, custom |-> f] : c \in classes \cap BuiltinClasses,
                                 f \in {NoCustom, PlainCustom}}
    \cup {[cls |-> c, custom |-> f] : c \in classes \cap {"Operator"},
                                      f \in {NoCustom} \cup CustomFns}
    \cup {[cls |-> c, custom |-> NoCustom] : c \in classes \cap {"object"}}

Graphs(classes, n) ==
    {[ops |-> s, stage |-> "input"] : s \in SeqsUpTo(OpKinds(classes), n)}

\* isinstance(op, cls) for a class of the chain, and for Operator itself.
IsInstance(op, cls) ==
    IF cls = "Operator" THEN op.cls # "object" ELSE op.cls = cls

\* "custom_kernel" in op.parameters
HasCustomKernel(op) == op.custom.present

\* Mutant: the "custom_kernel" test is made before the isinstance chain.
FirstMatchCustomFirst(op) ==
    IF HasCustomKernel(op) /\ IsInstance(op, "Operator") THEN 0
    ELSE IF \E i \in DOMAIN BuiltinChain : IsInstance(op, BuiltinChain[i])
         THEN CHOOSE i \in DOMAIN BuiltinChain : IsInstance(op, BuiltinChain[i])
         ELSE 0

\* The index of the first branch of the if/elif chain that op matches,
\* 0 when it matches none of the built-in branches.
FirstMatch(op) ==
    IF \E i \in DOMAIN BuiltinChain : IsInstance(op, BuiltinChain[i])
    THEN CHOOSE i \in DOMAIN BuiltinChain :
           /\ IsInstance(op, BuiltinChain[i])
           /\ \A j \in 1..(i - 1) : ~IsInstance(op, BuiltinChain[j])
    ELSE 0

\* util.listup_operators(graph): the traversal of the graph.
listup_operators(g) == g.ops

-----------------------------------------------------------------------------
(* Collaborators outside the sources *)

\* WebGPUOptimizeRule().optimize(graph): the rewrite rules are not part of
\* the sources; the result is a new graph value, told apart from the input.
Optimize(g) == [g EXCEPT !.stage = "optimized"]

\* Operators with weights (Sgemm carries HaveWeights) own a constant tensor.
WeightedClasses == {"Sgemm"}

VariableTensors(g) == {<<"v", i>> : i \in 0..Len(g.ops)}

ConstantTensors(g) ==
    {<<"c", i>> : i \in {j \in 1..Len(g.ops) : g.ops[j].cls \in WeightedClasses}}

\* The tensors operator i of the traversal reads and writes.
OpTensors(g, i) ==
    {<<"v", i - 1>>, <<"v", i>>}
    \cup (IF g.ops[i].cls \in WeightedClasses THEN {<<"c", i>>} ELSE {})

\* Allocator.allocate(graph) -> variables_layout, constants_layout, constants_data
Allocate(g) ==
    [variables_layout |-> [buffer |-> "variables", graph |-> g.stage,
                           tensors |-> VariableTensors(g)],
     constants_layout |-> [buffer |-> "constants", graph |-> g.stage,
                           tensors |-> ConstantTensors(g)],
     constants_data   |-> [graph |-> g.stage, size |-> Cardinality(ConstantTensors(g))]]

\* A built-in kernel-emission function (linear, relu, ...): one kernel, bound
\* to the operator's tensors, as the handler of scalar_pow.py returns [kernel].
BuiltinKernels(h, g, i) ==
    <<[handler |-> h, op |-> i, k |-> 1, tensors |-> OpTensors(g, i)]>>

\* The caller-supplied function under "custom_kernel".
CustomKernels(g, i) ==
    [k \in 1..g.ops[i].custom.n |->
        [handler |-> "custom_kernel", op |-> i, k |-> k,
         tensors |-> IF g.ops[i].custom.stray THEN {<<"s", i>>}
                     ELSE OpTensors(g, i)]]

\* Mutant: the assembly checks nothing.
LayoutsCoverUnchecked(ks, cl, vl) == TRUE

\* GraphDescriptor(...): the final consistency check of the assembly.
LayoutsCover(ks, cl, vl) ==
    \A j \in DOMAIN ks : \A t \in ks[j].tensors :
        (t \in cl.tensors) # (t \in vl.tensors)

GraphInputs(g) == {<<"v", 0>>}

GraphOutputs(g) == {<<"v", Len(g.ops)>>}

\* What subprocess.run(["xcrun", ...]) can do: run the toolchain to a return
\* code, or raise because the toolchain cannot be started.
ReturnCodes == {0, 1, 2}

ToolchainOutcomes ==
    {[started |-> TRUE, returncode |-> r] : r \in ReturnCodes}
    \cup {[started |-> FALSE, returncode |-> 0]}

-----------------------------------------------------------------------------
(* generate(graph) and generate_kernels(graph, constants_layout,           *)
(* variables_layout), one action per step                                  *)

NoException == [type |-> "none", op |-> 0, cls |-> "none"]

\* The record of one handler invocation: the function called, its arguments
\* (the operator by its index in the traversal) and the list it returned.
Call(h, i, cl, vl, ks) ==
    [handler |-> h, op |-> i, constants_layout |-> cl, variables_layout |-> vl,
     returned |-> ks]

\* graph, _ = WebGPUOptimizeRule().optimize(graph)
\* (util.dump and the prints under flags.DEBUG change no state.)
OptimizeGraph ==
    /\ pc = "start"
    /\ graph' = Optimize(inputGraph)
    /\ phases' = Append(phases, "optimize")
    /\ pc' = "optimized"
    /\ UNCHANGED <<sgemmVars, strideVars, inputGraph, VALIDATE_GENERATED_SOURCE, variables_layout,
                   constants_layout, constants_data, kernels, pos, descriptor,
                   result, exception, exitCode, reported, toolchain, calls,
                   outcomes>>

\* Mutant: the allocator is given the graph as it was before optimize.
AllocateInputGraph ==
    /\ pc = "optimized"
    /\ variables_layout' = Allocate(inputGraph).variables_layout
    /\ constants_layout' = Allocate(inputGraph).constants_layout
    /\ constants_data' = Allocate(inputGraph).constants_data
    /\ phases' = Append(phases, "allocate")
    /\ pc' = "allocated"
    /\ UNCHANGED <<sgemmVars, strideVars, inputGraph, VALIDATE_GENERATED_SOURCE,
                   graph, kernels, pos, descriptor, result, exception, exitCode,
                   reported, toolchain, calls, outcomes>>

\* variables_layout, constants_layout, constants_data = Allocator.allocate(graph)
AllocateLayouts ==
    /\ pc = "optimized"
    /\ variables_layout' = Allocate(graph).variables_layout
    /\ constants_layout' = Allocate(graph).constants_layout
    /\ constants_data' = Allocate(graph).constants_data
    /\ phases' = Append(phases, "allocate")
    /\ pc' = "allocated"
    /\ UNCHANGED <<sgemmVars, strideVars, inputGraph, VALIDATE_GENERATED_SOURCE, graph, kernels, pos,
                   descriptor, result, exception, exitCode, reported, toolchain,
                   calls, outcomes>>

\* Mutant: the list is not created anew by each call (a module-level list).
GenerateKernelsEnterShared ==
    /\ pc = "allocated"
    /\ pos' = 1
    /\ phases' = Append(phases, "generate_kernels")
    /\ pc' = "dispatch"
    /\ UNCHANGED <<sgemmVars, strideVars, inputGraph, VALIDATE_GENERATED_SOURCE,
                   graph, variables_layout, constants_layout, constants_data,
                   kernels, descriptor, result, exception, exitCode, reported,
                   toolchain, calls, outcomes>>

\* kernels: List[Kernel] = []  (entry of generate_kernels)
GenerateKernelsEnter ==
    /\ pc = "allocated"
    /\ kernels' = <<>>
    /\ pos' = 1
    /\ phases' = Append(phases, "generate_kernels")
    /\ pc' = "dispatch"
    /\ UNCHANGED <<sgemmVars, strideVars, inputGraph, VALIDATE_GENERATED_SOURCE, graph,
                   variables_layout, constants_layout, constants_data,
                   descriptor, result, exception, exitCode, reported, toolchain,
                   calls, outcomes>>

\* Mutant: the returned kernels are put in front of the list.
EmitInFront(h, ks) ==
    /\ kernels' = ks \o kernels
    /\ calls' = Append(calls, Call(h, pos, constants_layout, variables_layout, ks))
    /\ pos' = pos + 1
    /\ UNCHANGED <<pc, exception>>

\* Mutant: the two layouts are passed in the order allocate returns them.
EmitSwapped(h, ks) ==
    /\ kernels' = kernels \o ks
    /\ calls' = Append(calls, Call(h, pos, variables_layout, constants_layout, ks))
    /\ pos' = pos + 1
    /\ UNCHANGED <<pc, exception>>

\* kernels += handler(op, constants_layout, variables_layout)
Emit(h, ks) ==
    /\ kernels' = kernels \o ks
    /\ calls' = Append(calls, Call(h, pos, constants_layout, variables_layout, ks))
    /\ pos' = pos + 1
    /\ UNCHANGED <<pc, exception>>

\* Mutant: an unknown operator is skipped.
SkipUnknown(op) ==
    /\ pos' = pos + 1
    /\ UNCHANGED <<kernels, calls, pc, exception>>

\* raise NotImplementedError(f"{op} is Unknown for WebGPUDescriptorGenerator")
RaiseUnknown(op) ==
    /\ exception' = [type |-> "NotImplementedError", op |-> pos, cls |-> op.cls]
    /\ pc' = "raised"
    /\ UNCHANGED <<kernels, calls, pos>>

\* One iteration of `for op in util.listup_operators(graph)`.
DispatchOperator ==
    /\ pc = "dispatch"
    /\ pos <= Len(listup_operators(graph))
    /\ LET op == listup_operators(graph)[pos]
           b  == FirstMatch(op)
       IN  \/ /\ b # 0
              /\ Emit(BuiltinHandlers[b], BuiltinKernels(BuiltinHandlers[b], graph, pos))
           \/ /\ b = 0
              /\ IsInstance(op, "Operator")
              /\ HasCustomKernel(op)
              /\ Emit("custom_kernel", CustomKernels(graph, pos))
           \/ /\ b = 0
              /\ IsInstance(op, "Operator")
              /\ ~HasCustomKernel(op)
              /\ RaiseUnknown(op)
           \/ /\ b = 0
              /\ ~IsInstance(op, "Operator")
              /\ RaiseUnknown(op)
    /\ UNCHANGED <<sgemmVars, strideVars, inputGraph, VALIDATE_GENERATED_SOURCE, graph,
                   variables_layout, constants_layout, constants_data,
                   descriptor, result, exitCode, reported, toolchain, phases,
                   outcomes>>

\* return kernels  (the loop is exhausted)
GenerateKernelsReturn ==
    /\ pc = "dispatch"
    /\ pos > Len(listup_operators(graph))
    /\ pc' = "generated"
    /\ UNCHANGED <<sgemmVars, strideVars, inputGraph, VALIDATE_GENERATED_SOURCE, graph,
                   variables_layout, constants_layout, constants_data, kernels,
                   pos, descriptor, result, exception, exitCode, reported,
                   toolchain, calls, phases, outcomes>>

\* descriptor = GraphDescriptor(kernels=..., constants_layout=...,
\*     variables_layout=..., inputs=graph.inputs, outputs=graph.outputs)
AssembleDescriptor ==
    /\ pc = "generated"
    /\ phases' = Append(phases, "descriptor")
    /\ \/ /\ LayoutsCover(kernels, constants_layout, variables_layout)
          /\ descriptor' = [kernels |-> kernels,
                            constants_layout |-> constants_layout,
                            variables_layout |-> variables_layout,
                            inputs |-> GraphInputs(graph),
                            outputs |-> GraphOutputs(graph)]
          /\ pc' = "assembled"
          /\ UNCHANGED exception
       \/ /\ ~LayoutsCover(kernels, constants_layout, variables_layout)
          /\ exception' = [type |-> "LayoutKernelMismatch", op |-> 0, cls |-> "none"]
          /\ pc' = "raised"
          /\ UNCHANGED descriptor
    /\ UNCHANGED <<sgemmVars, strideVars, inputGraph, VALIDATE_GENERATED_SOURCE, graph,
                   variables_layout, constants_layout, constants_data, kernels,
                   pos, result, exitCode, reported, toolchain, calls, outcomes>>

\* Mutant: an invalid source is reported and the compilation goes on.
WarnAndContinue(run) ==
    /\ reported' = TRUE
    /\ pc' = "validated"
    /\ UNCHANGED <<exception, exitCode>>

\* print("Generated kernel source is invalid."); exit(result.returncode)
RejectSource(run) ==
    /\ reported' = TRUE
    /\ exitCode' = run.returncode
    /\ pc' = "exited"
    /\ UNCHANGED exception

\* if flags.backend.webgpu.VALIDATE_GENERATED_SOURCE:
\*     validate_kernel_source(descriptor)
ValidateGeneratedSource ==
    /\ pc = "assembled"
    /\ \/ /\ ~VALIDATE_GENERATED_SOURCE
          /\ pc' = "validated"
          /\ UNCHANGED <<exception, exitCode, reported, toolchain, phases>>
       \/ /\ VALIDATE_GENERATED_SOURCE
          /\ phases' = Append(phases, "validate")
          /\ \E run \in ToolchainOutcomes :
               /\ toolchain' = Append(toolchain, run)
               /\ \/ /\ ~run.started
                     /\ exception' = [type |-> "FileNotFoundError", op |-> 0,
                                      cls |-> "none"]
                     /\ pc' = "raised"
                     /\ UNCHANGED <<exitCode, reported>>
                  \/ /\ run.started
                     /\ run.returncode # 0
                     /\ RejectSource(run)
                  \/ /\ run.started
                     /\ run.returncode = 0
                     /\ pc' = "validated"
                     /\ UNCHANGED <<exception, exitCode, reported>>
    /\ UNCHANGED <<sgemmVars, strideVars, inputGraph, VALIDATE_GENERATED_SOURCE, graph,
                   variables_layout, constants_layout, constants_data, kernels,
                   pos, descriptor, result, calls, outcomes>>

\* return descriptor, constants_data
ReturnDescriptor ==
    /\ pc = "validated"
    /\ result' = [descriptor |-> descriptor, constants_data |-> constants_data]
    /\ pc' = "returned"
    /\ UNCHANGED <<sgemmVars, strideVars, inputGraph, VALIDATE_GENERATED_SOURCE, graph,
                   variables_layout, constants_layout, constants_data, kernels,
                   pos, descriptor, exception, exitCode, reported, toolchain,
                   calls, phases, outcomes>>

\* The caller calls generate(graph) again, after a call that returned or
\* raised (after exit() the process is gone). Locals of the earlier call are
\* left as they were: every one is assigned before it is read.
Recompile ==
    /\ pc \in {"returned", "raised"}
    /\ Len(outcomes) < MaxRecompiles
    /\ outcomes' = Append(outcomes, [pc |-> pc, result |-> result,
                                     exception |-> exception])
    /\ pc' = "start"
    /\ result' = None
    /\ exception' = NoException
    /\ calls' = <<>>
    /\ phases' = <<>>
    /\ toolchain' = <<>>
    /\ UNCHANGED <<sgemmVars, strideVars, inputGraph, VALIDATE_GENERATED_SOURCE, graph,
                   variables_layout, constants_layout, constants_data, kernels,
                   pos, descriptor, exitCode, reported>>

-----------------------------------------------------------------------------
(* Sgemm *)

Shapes(rank, extent) == UNION {[1..r -> 1..extent] : r \in 1..rank}

\* Variable(shape, order); an order is known here by its rank.
Variable(shape, order) == [shape |-> shape, order |-> order]

\* Variable.size: the element count of the variable.
Size(v) == Product(v.shape)

Orders == {[ndim |-> r] : r \in 1..MaxOutRank}

OutShapes == Shapes(MaxOutRank, MaxExtent)

\* The operands A and B are matrices.
Operands == {Variable(sh, [ndim |-> 2]) : sh \in [1..2 -> 1..MaxDim]}

NoSgemm == [alive |-> FALSE, parameters |-> None, inputs |-> {}, outputs |-> {}]

NoOp == [op |-> "none", ok |-> TRUE, args |-> None]

\* Operator.append_input(name, var) / append_output(name, var): dictionaries
\* kept as sets of <<name, variable>> pairs.
Attach(dict, name, v) == {e \in dict : e[1] # name} \cup {<<name, v>>}

\* The assert statements are executed (the interpreter runs without -O).
\* assert len(out_shape) == out_order.ndim
\* assert np.product(out_shape) == M * N
InitContract(M, N, K, out_shape, out_order) ==
    /\ Len(out_shape) = out_order.ndim
    /\ Product(out_shape) = M * N

\* Sgemm.__init__(name, M, N, K, out_shape, out_order, transpose_A, transpose_B)
SgemmInit ==
    /\ lastOp.op = "none"
    /\ \E M \in 1..MaxDim, N \in 1..MaxDim, K \in 1..MaxDim,
          out_shape \in OutShapes, out_order \in Orders,
          transpose_A \in BOOLEAN :
         LET args == [M |-> M, N |-> N, K |-> K, out_shape |-> out_shape,
                      out_order |-> out_order, transpose_A |-> transpose_A,
                      transpose_B |-> ~transpose_A]
         IN  \/ /\ InitContract(M, N, K, out_shape, out_order)
                /\ sgemm' = [alive |-> TRUE, parameters |-> args,
                             inputs |-> {}, outputs |-> {}]
                /\ lastOp' = [op |-> "init", ok |-> TRUE, args |-> args]
             \/ /\ ~InitContract(M, N, K, out_shape, out_order)
                /\ lastOp' = [op |-> "init", ok |-> FALSE, args |-> args]
                /\ UNCHANGED sgemm
    /\ UNCHANGED <<genVars, strideVars>>

\* Mutant: the size of B is held against M * K.
CallContractWrongB(op, A, B) ==
    /\ Size(A) = op.parameters.M * op.parameters.K
    /\ Size(B) = op.parameters.M * op.parameters.K

\* assert A.size == self.M * self.K
\* assert B.size == self.N * self.K
CallContract(op, A, B) ==
    /\ Size(A) = op.parameters.M * op.parameters.K
    /\ Size(B) = op.parameters.N * op.parameters.K

\* Sgemm.__call__(A, B)
SgemmCall ==
    /\ sgemm.alive
    /\ \E A \in Operands, B \in Operands :
         \/ /\ CallContract(sgemm, A, B)
            /\ sgemm' = [sgemm EXCEPT
                 !.inputs = Attach(Attach(@, "A", A), "B", B),
                 !.outputs = Attach(@, "C", Variable(sgemm.parameters.out_shape,
                                                     sgemm.parameters.out_order))]
            /\ lastOp' = [op |-> "call", ok |-> TRUE, args |-> [A |-> A, B |-> B]]
         \/ /\ ~CallContract(sgemm, A, B)
            /\ lastOp' = [op |-> "call", ok |-> FALSE, args |-> [A |-> A, B |-> B]]
            /\ UNCHANGED sgemm
    /\ UNCHANGED <<genVars, strideVars>>

-----------------------------------------------------------------------------
(* calculate_stride *)

Axes == <<"N", "C", "H", "W">>

\* The axis orders of rank r: the arrangements of r distinct axes.
AxisOrders(r) ==
    {o \in [1..r -> {Axes[i] : i \in DOMAIN Axes}] :
        \A i, j \in 1..r : i # j => o[i] # o[j]}

StrideVariables ==
    UNION {{Variable(sh, [axes |-> o]) : sh \in [1..r -> 1..MaxExtent],
                                          o \in AxisOrders(r)} : r \in 1..MaxRank}

\* var.order.axes_dict[axis]: the 0-based position of the axis in the order.
axes_dict(order, axis) ==
    (CHOOSE i \in DOMAIN order.axes : order.axes[i] = axis) - 1

\* s[k:] of Python, k counted from 0.
SliceFrom(s, k) == SubSeq(s, k + 1, Len(s))

\* Mutant: the slice starts at the axis itself.
calculate_stride_inclusive(v, axis) ==
    Product(SliceFrom(v.shape, axes_dict(v.order, axis)))

\* int(np.prod(var.shape[var.order.axes_dict[axis] + 1:]))
calculate_stride(v, axis) ==
    Product(SliceFrom(v.shape, axes_dict(v.order, axis) + 1))

\* One call of calculate_stride(var, axis); the result is kept by axis.
CalculateStride ==
    /\ \E i \in DOMAIN var.order.axes :
         LET axis == var.order.axes[i]
         IN  /\ \A e \in strides : e[1] # axis
             /\ strides' = strides \cup {<<axis, calculate_stride(var, axis)>>}
    /\ UNCHANGED <<genVars, sgemmVars, var>>

-----------------------------------------------------------------------------
(* Specifications *)

GenIdle ==
    /\ pc = "start"
    /\ graph = None
    /\ variables_layout = None
    /\ constants_layout = None
    /\ constants_data = None
    /\ kernels = <<>>
    /\ pos = 0
    /\ descriptor = None
    /\ result = None
    /\ exception = NoException
    /\ exitCode = 0
    /\ reported = FALSE
    /\ toolchain = <<>>
    /\ calls = <<>>
    /\ phases = <<>>
    /\ outcomes = <<>>

SgemmIdle ==
    /\ sgemm = NoSgemm
    /\ lastOp = NoOp

StrideIdle ==
    /\ var = Variable(<<1>>, [axes |-> <<"C">>])
    /\ strides = {}

Init ==
    /\ inputGraph \in Graphs(Classes, MaxOps)
    /\ VALIDATE_GENERATED_SOURCE \in BOOLEAN
    /\ GenIdle
    /\ SgemmIdle
    /\ StrideIdle

Next ==
    \/ OptimizeGraph
    \/ AllocateLayouts
    \/ GenerateKernelsEnter
    \/ DispatchOperator
    \/ GenerateKernelsReturn
    \/ AssembleDescriptor
    \/ ValidateGeneratedSource
    \/ ReturnDescriptor

Spec == Init /\ [][Next]_vars

RepeatClasses == {"Linear", "Sgemm", "AffineTransform", "Operator", "object"}

InitRepeat ==
    /\ inputGraph \in Graphs(RepeatClasses, MaxOps)
    /\ VALIDATE_GENERATED_SOURCE \in BOOLEAN
    /\ GenIdle
    /\ SgemmIdle
    /\ StrideIdle

NextRepeat == Next \/ Recompile

SpecRepeat == InitRepeat /\ [][NextRepeat]_vars

InitSgemm ==
    /\ inputGraph = [ops |-> <<>>, stage |-> "input"]
    /\ VALIDATE_GENERATED_SOURCE = FALSE
    /\ GenIdle
    /\ SgemmIdle
    /\ StrideIdle

NextSgemm == SgemmInit \/ SgemmCall

SpecSgemm == InitSgemm /\ [][NextSgemm]_vars

InitStride ==
    /\ inputGraph = [ops |-> <<>>, stage |-> "input"]
    /\ VALIDATE_GENERATED_SOURCE = FALSE
    /\ GenIdle
    /\ SgemmIdle
    /\ var \in StrideVariables
    /\ strides = {}

NextStride == CalculateStride

SpecStride == InitStride /\ [][NextStride]_vars

-----------------------------------------------------------------------------
(* Properties of generate and generate_kernels *)

\* The traversal generate_kernels walks: that of the optimized graph.
Traversal == listup_operators(Optimize(inputGraph))

\* generate_kernels has been entered.
Started == pc \notin {"start", "optimized", "allocated"}

\* An operator that is of no built-in variant and has no "custom_kernel".
Unsupported(op) == op.cls \notin BuiltinClasses /\ ~op.custom.present

\* An operator of no built-in variant that carries a "custom_kernel".
CustomVariant(op) == op.cls = "Operator" /\ op.custom.present

FirstUnsupported ==
    CHOOSE i \in DOMAIN Traversal :
        /\ Unsupported(Traversal[i])
        /\ \A j \in 1..(i - 1) : ~Unsupported(Traversal[j])

RECURSIVE Concatenation(_)
Concatenation(lists) ==
    IF lists = <<>> THEN <<>> ELSE Head(lists) \o Concatenation(Tail(lists))

Returned(cs) == [j \in DOMAIN cs |-> cs[j].returned]

CallsFor(i) == {j \in DOMAIN calls : calls[j].op = i}

\* The kernels of the list that stand where call j appended its result.
KernelsAt(j) ==
    LET before == Len(Concatenation(Returned(SubSeq(calls, 1, j - 1))))
    IN  SubSeq(kernels, before + 1, before + Len(calls[j].returned))

\* The kernel-emission function of each built-in variant, as imported.
HandlerOf(cls) ==
    CASE cls = "Linear" -> "linear"
      [] cls = "AxiswiseBias" -> "axiswise_bias"
      [] cls = "Relu" -> "relu"
      [] cls = "Elu" -> "elu"
      [] cls = "Tanh" -> "tanh"
      [] cls = "LocalResponseNormalization" -> "local_response_normalization"
      [] cls = "MaxPooling2D" -> "max_pooling_2d"
      [] cls = "AveragePooling2D" -> "average_pooling_2d"
      [] cls = "AxiswiseScale" -> "axiswise_scale"
      [] cls = "ElementwiseSum" -> "elementwise_sum"
      [] cls = "Flatten" -> "flatten"
      [] cls = "Sgemm" -> "sgemm"
      [] cls = "Im2Col" -> "im2col"
      [] cls = "Col2Im" -> "col2im"
      [] cls = "AffineTransform" -> "affine_transform"
      [] OTHER -> "custom_kernel"

\* C1: when the traversal holds an operator that is of no built-in variant
\* and has no "custom_kernel", generate never gets past the dispatch loop:
\* the loop stops at the first such operator with a NotImplementedError that
\* names it, and neither a kernel list, a descriptor nor a result is handed
\* back, however many operators were dispatched before it.
C1_UnsupportedOperatorRejected ==
    (\E i \in DOMAIN Traversal : Unsupported(Traversal[i])) =>
        /\ pc \in {"start", "optimized", "allocated", "dispatch", "raised"}
        /\ descriptor = None
        /\ result = None
        /\ pc = "dispatch" => pos <= FirstUnsupported
        /\ pc = "raised" =>
             /\ exception = [type |-> "NotImplementedError",
                             op |-> FirstUnsupported,
                             cls |-> Traversal[FirstUnsupported].cls]
             /\ Len(calls) = FirstUnsupported - 1

C1_Witness ==
    /\ pc = "raised"
    /\ exception.type = "NotImplementedError"
    /\ exception.op = 2
    /\ Len(calls) = 1
    /\ Len(kernels) >= 1
    /\ result = None

\* C2 (as stated): once generate_kernels has returned, every operator of the
\* traversal that carries a "custom_kernel" has had that function invoked
\* exactly once.
C2_EveryCustomKernelInvoked ==
    pc = "generated" =>
        \A i \in DOMAIN Traversal :
            Traversal[i].custom.present =>
                /\ Cardinality(CallsFor(i)) = 1
                /\ \A j \in CallsFor(i) : calls[j].handler = "custom_kernel"

\* C2 (amended): every dispatched operator that is of no built-in variant and
\* carries a "custom_kernel" has had that function invoked exactly once, with
\* the operator and the constants and variables layouts, in that order, and
\* the kernels it returned stand in the list at that operator's position; such
\* an operator is never reported as unknown.
C2_CustomVariantInvoked ==
    Started =>
        /\ \A i \in 1..(pos - 1) :
             CustomVariant(Traversal[i]) =>
                /\ Cardinality(CallsFor(i)) = 1
                /\ \A j \in CallsFor(i) :
                     /\ calls[j].handler = "custom_kernel"
                     /\ calls[j].constants_layout = constants_layout
                     /\ calls[j].constants_layout.buffer = "constants"
                     /\ calls[j].variables_layout = variables_layout
                     /\ calls[j].variables_layout.buffer = "variables"
                     /\ calls[j].returned = CustomKernels(graph, i)
                     /\ KernelsAt(j) = calls[j].returned
        /\ exception.type = "NotImplementedError" =>
             ~CustomVariant(Traversal[exception.op])

C2_Witness ==
    /\ pc = "generated"
    /\ Len(Traversal) = 2
    /\ Traversal[1].cls = "Linear"
    /\ CustomVariant(Traversal[2])
    /\ Traversal[2].custom.n = 2
    /\ Len(kernels) = 3
    /\ kernels[2].handler = "custom_kernel"

\* C3: the kernel list is the concatenation, in traversal order, of the lists
\* the handlers returned: one call per operator dispatched so far, in the
\* order of the traversal, the kernels of an earlier operator before those of
\* a later one, and the list handed back holds the kernels of every operator.
C3_KernelsInTraversalOrder ==
    Started =>
        /\ Len(calls) = (IF pc = "dispatch" \/ exception.type = "NotImplementedError"
                         THEN pos - 1 ELSE Len(Traversal))
        /\ \A j \in DOMAIN calls : calls[j].op = j
        /\ kernels = Concatenation(Returned(calls))
        /\ \A a, b \in DOMAIN kernels :
             a < b => \/ kernels[a].op < kernels[b].op
                      \/ kernels[a].op = kernels[b].op /\ kernels[a].k < kernels[b].k
        /\ pc = "returned" =>
             result.descriptor.kernels = Concatenation(Returned(calls))

C3_Witness ==
    /\ pc = "returned"
    /\ Len(calls) = 2
    /\ Len(calls[1].returned) = 2
    /\ Len(result.descriptor.kernels) = 3
    /\ result.descriptor.kernels[3].op = 2

PhaseOrder == <<"optimize", "allocate", "generate_kernels", "descriptor", "validate">>

\* C4: the phases of generate run in the order optimize, allocate,
\* generate_kernels, descriptor assembly, validation; no handler is called
\* before allocate has returned and none after the assembly has begun;
\* allocate is given the optimized graph; every handler receives the two
\* layouts that call returned, and the descriptor handed back holds them.
C4_PhasesInOrder ==
    LET allocated == Allocate(Optimize(inputGraph))
    IN  /\ Len(phases) <= Len(PhaseOrder)
        /\ phases = SubSeq(PhaseOrder, 1, Len(phases))
        /\ calls # <<>> => Len(phases) >= 3
        /\ Len(phases) >= 4 => Len(calls) = Len(Traversal)
        /\ Len(phases) >= 2 =>
             /\ variables_layout = allocated.variables_layout
             /\ constants_layout = allocated.constants_layout
             /\ constants_data = allocated.constants_data
             /\ variables_layout.graph = "optimized"
        /\ \A j \in DOMAIN calls :
             /\ calls[j].constants_layout = allocated.constants_layout
             /\ calls[j].variables_layout = allocated.variables_layout
        /\ pc = "returned" =>
             /\ result.descriptor.constants_layout = allocated.constants_layout
             /\ result.descriptor.variables_layout = allocated.variables_layout
             /\ result.constants_data = allocated.constants_data

C4_Witness ==
    /\ pc = "returned"
    /\ phases = PhaseOrder
    /\ Len(calls) = 2
    /\ result.descriptor.variables_layout.graph = "optimized"

\* C5: generate hands back a descriptor only if validation is disabled, and
\* then the toolchain was never run, or the toolchain ran and returned zero;
\* when the toolchain returns a non-zero code the failure is reported, the
\* process exits with that code and nothing is handed back.
C5_ValidationGatesResult ==
    /\ ~VALIDATE_GENERATED_SOURCE => toolchain = <<>>
    /\ Len(toolchain) <= 1
    /\ result # None =>
          \/ ~VALIDATE_GENERATED_SOURCE /\ toolchain = <<>>
          \/ /\ VALIDATE_GENERATED_SOURCE
             /\ Len(toolchain) = 1
             /\ toolchain[1].started
             /\ toolchain[1].returncode = 0
    /\ \A j \in DOMAIN toolchain :
          toolchain[j].started /\ toolchain[j].returncode # 0 =>
             /\ pc = "exited"
             /\ reported
             /\ exitCode = toolchain[j].returncode
             /\ result = None
    /\ pc = "exited" <=> reported

C5_Witness ==
    /\ pc = "exited"
    /\ exitCode = 2
    /\ reported
    /\ result = None
    /\ descriptor # None

\* C6: every tensor a kernel of a returned descriptor refers to has an entry
\* in exactly one of the two layouts of that descriptor, and when a kernel
\* refers to a tensor that is in neither, the assembly ends in an internal
\* error and nothing is handed back.
C6_LayoutsCoverKernels ==
    /\ pc \in {"assembled", "validated", "returned", "exited"} =>
         \A j \in DOMAIN descriptor.kernels : \A t \in descriptor.kernels[j].tensors :
             (t \in descriptor.constants_layout.tensors)
                 # (t \in descriptor.variables_layout.tensors)
    /\ (/\ Len(phases) >= 4
        /\ \E j \in DOMAIN kernels : \E t \in kernels[j].tensors :
             t \notin constants_layout.tensors \cup variables_layout.tensors)
       => /\ pc = "raised"
          /\ exception.type = "LayoutKernelMismatch"
          /\ descriptor = None
          /\ result = None

C6_Witness ==
    /\ pc = "raised"
    /\ exception.type = "LayoutKernelMismatch"
    /\ Len(kernels) = 2
    /\ result = None

\* C9: every operator dispatched so far has had exactly one handler invoked,
\* once: the built-in handler of its variant when it is of a built-in
\* variant, whether or not its parameters hold a "custom_kernel", and the
\* custom function otherwise; the custom function of a built-in operator is
\* never called; after an unsupported-operator error no handler of that
\* operator or of a later one has been invoked.
C9_OneHandlerPerOperator ==
    Started =>
        /\ \A i \in 1..(pos - 1) :
             /\ Cardinality(CallsFor(i)) = 1
             /\ \A j \in CallsFor(i) : calls[j].handler = HandlerOf(Traversal[i].cls)
        /\ \A j \in DOMAIN calls :
             /\ calls[j].op \in 1..(pos - 1)
             /\ calls[j].handler = "custom_kernel" =>
                  Traversal[calls[j].op].cls \notin BuiltinClasses
        /\ exception.type = "NotImplementedError" =>
             /\ pos = exception.op
             /\ \A j \in DOMAIN calls : calls[j].op < exception.op

C9_Witness ==
    /\ pc = "raised"
    /\ exception.type = "NotImplementedError"
    /\ exception.op = 2
    /\ Traversal[1].cls = "Sgemm"
    /\ Traversal[1].custom.present
    /\ Len(calls) = 1
    /\ calls[1].handler = "sgemm"

-----------------------------------------------------------------------------
(* Compiling the same graph again *)

\* C7: a call of generate on the same graph, with the same flags, that
\* hands back a result hands back the result an earlier call handed back:
\* the same kernels in the same order, the same layouts and the same
\* constants data; and when an earlier call ended in an unsupported-operator
\* or assembly error, a later call that ends has ended in that same error.
C7_SameGraphSameResult ==
    \A n \in DOMAIN outcomes :
        LET o == outcomes[n]
        IN  /\ pc = "returned" /\ o.pc = "returned" => result = o.result
            /\ pc = "returned" =>
                 o.exception.type \in {"none", "FileNotFoundError"}
            /\ (/\ pc \in {"raised", "exited"}
                /\ o.exception.type \in {"NotImplementedError", "LayoutKernelMismatch"})
               => exception = o.exception
            /\ (pc \in {"assembled", "validated", "exited"} /\ o.pc = "returned")
               => descriptor = o.result.descriptor

C7_Witness ==
    /\ Len(outcomes) = 1
    /\ outcomes[1].pc = "returned"
    /\ pc = "returned"
    /\ Len(result.descriptor.kernels) = 3
    /\ result = outcomes[1].result

-----------------------------------------------------------------------------
(* Properties of Sgemm *)

\* A construction fails exactly when the rank of out_shape is not that of
\* out_order or its element count is not M * N, and then there is no operator;
\* a constructed operator holds its arguments and has nothing attached.
SgemmInitChecked ==
    lastOp.op = "init" =>
        LET a == lastOp.args
        IN  /\ lastOp.ok <=> (/\ Len(a.out_shape) = a.out_order.ndim
                              /\ Product(a.out_shape) = a.M * a.N)
            /\ ~lastOp.ok => sgemm = NoSgemm
            /\ lastOp.ok => /\ sgemm.alive
                            /\ sgemm.parameters = a
                            /\ sgemm.inputs = {}
                            /\ sgemm.outputs = {}

\* An application fails exactly when A.size is not M * K or B.size is not N * K.
SgemmCallChecked ==
    lastOp.op = "call" =>
        (lastOp.ok <=> (/\ Product(lastOp.args.A.shape)
                             = sgemm.parameters.M * sgemm.parameters.K
                        /\ Product(lastOp.args.B.shape)
                             = sgemm.parameters.N * sgemm.parameters.K))

\* A successful application leaves exactly the inputs "A" and "B" and the one
\* output "C", of shape out_shape and order out_order, with M * N elements.
SgemmCallAttaches ==
    /\ (lastOp.op = "call" /\ lastOp.ok) =>
          /\ sgemm.inputs = {<<"A", lastOp.args.A>>, <<"B", lastOp.args.B>>}
          /\ sgemm.outputs # {}
    /\ \A c \in sgemm.outputs :
          /\ sgemm.outputs = {c}
          /\ c[1] = "C"
          /\ c[2].shape = sgemm.parameters.out_shape
          /\ c[2].order = sgemm.parameters.out_order
          /\ Len(c[2].shape) = c[2].order.ndim
          /\ Product(c[2].shape) = sgemm.parameters.M * sgemm.parameters.N
          /\ {e[1] : e \in sgemm.inputs} = {"A", "B"}
          /\ Cardinality(sgemm.inputs) = 2

\* C8 (as stated): Sgemm checks its shape contract when it is constructed and
\* when it is applied, a failed application leaves the operator with no input
\* and no output attached, and a successful one attaches exactly "A", "B"
\* and "C".
C8_FailedCallLeavesNothingAttached ==
    /\ SgemmInitChecked
    /\ SgemmCallChecked
    /\ SgemmCallAttaches
    /\ (lastOp.op = "call" /\ ~lastOp.ok) =>
          sgemm.inputs = {} /\ sgemm.outputs = {}

\* C8 (amended): Sgemm checks its shape contract when it is constructed and
\* when it is applied, a failed application leaves the inputs and outputs of
\* the operator as they were before it (none on an operator never applied
\* with success), and a successful one attaches exactly "A", "B" and "C".
C8_FailedCallChangesNothing ==
    /\ [](SgemmInitChecked /\ SgemmCallChecked /\ SgemmCallAttaches)
    /\ [][(lastOp'.op = "call" /\ ~lastOp'.ok) =>
            /\ sgemm'.inputs = sgemm.inputs
            /\ sgemm'.outputs = sgemm.outputs
            /\ sgemm'.parameters = sgemm.parameters]_vars
    /\ [][(sgemm.inputs = {} /\ sgemm'.inputs # {}) =>
            lastOp'.op = "call" /\ lastOp'.ok]_vars

C8_Witness ==
    /\ lastOp.op = "call"
    /\ ~lastOp.ok
    /\ sgemm.inputs # {}
    /\ sgemm.outputs # {}
    /\ Size(lastOp.args.A) # sgemm.parameters.M * sgemm.parameters.K

-----------------------------------------------------------------------------
(* Properties of calculate_stride *)

\* The position, counted from 1, of an axis in the order of the variable.
PositionOf(axis) == CHOOSE i \in DOMAIN var.order.axes : var.order.axes[i] = axis

\* C10: the stride of the innermost axis is 1, the stride of an axis is the
\* stride of the next inner axis times the extent of that axis, and the
\* stride of the outermost axis times its extent is the element count of the
\* variable; a shape (2, 3, 4) has the strides (12, 4, 1).
C10_StridesAreContiguous ==
    \A e \in strides :
        LET p == PositionOf(e[1])
        IN  /\ \A f \in strides : f[1] = e[1] => f = e
            /\ p = Len(var.shape) => e[2] = 1
            /\ p = 1 => e[2] * var.shape[1] = Size(var)
            /\ \A f \in strides :
                 PositionOf(f[1]) = p + 1 => e[2] = f[2] * var.shape[p + 1]
            /\ var.shape = <<2, 3, 4>> => e[2] = <<12, 4, 1>>[p]

C10_Witness ==
    /\ var.shape = <<2, 3, 4>>
    /\ var.order.axes = <<"N", "H", "C">>
    /\ strides = {<<"N", 12>>, <<"H", 4>>, <<"C", 1>>}

=============================================================================
